---- MODULE Spec2Model ----
(***************************************************************************)
(* A model of the WSRPC session of src/wsrpc.es6.js: the Deferred wrapper, *)
(* the WebSocket objects the session constructs with their handlers        *)
(* (onopen, onerror, onclose, onmessage), the reconnect timer, the         *)
(* pending-call store and outbound queue, the route table, the             *)
(* lifecycle-event registry and the server-event listeners.  One action    *)
(* is one handler or public operation run to completion (JavaScript runs   *)
(* a handler and the microtasks it queues before the next event).          *)
(*                                                                         *)
(* The WebSocket itself is the environment; it follows the WHATWG          *)
(* interface: readyState 0..3, send() throws InvalidStateError while       *)
(* CONNECTING, transmits while OPEN and discards silently afterwards;      *)
(* close() moves CONNECTING/OPEN to CLOSING; an error event is fired with  *)
(* readyState already CLOSED and is followed by the close event; message   *)
(* events are delivered only while OPEN.                                   *)
(***************************************************************************)
EXTENDS Integers, Sequences, FiniteSets, TLC

\* ---------------------------------------------------------------- bounds
MaxSockets == 2
MaxCalls == 2
MaxInbound == 1
NoWaitSockets == 1
NoWaitCalls == 2
EventSockets == 1
LateSockets == 3
DestroySockets == 2
ServerSockets == 1
MaxServerListeners == 2
LateCalls == 1
MaxOnEvent == 2
MaxListeners == 1

\* ------------------------------------------------------- program constants
CONNECTING == 0
OPEN == 1
CLOSING == 2
CLOSED == 3
InitialId == 1
IdStep == 2

readyState(code) ==
  CASE code = 0 -> "CONNECTING"
    [] code = 1 -> "OPEN"
    [] code = 2 -> "CLOSING"
    [] OTHER    -> "CLOSED"

EvNames == {"onconnect", "onerror", "onclose", "onchange"}

\* The events onEvent and addEventListener are called with.
SubscribedEvents == {"onclose", "onchange"}

\* Method names a call or an inbound call frame may carry.
Methods == {"ping", "doStuff"}

VARIABLES
  id,                 \* self.id
  eventId,            \* self.eventId
  socketStarted,      \* self.socketStarted
  eventStore,         \* self.eventStore: event name -> set of listener ids
  connectionNumber,   \* self.connectionNumber
  oneTimeEventStore,  \* self.oneTimeEventStore: event name -> queue of Deferreds
  callQueue,          \* self.callQueue: queue of call objects
  asyncRoutes,        \* self.asyncRoutes: route name -> flag
  routes,             \* self.routes: the names that have a callback
  store,              \* self.store: call id -> Deferred
  socket,             \* self.socket: index into sockets, 0 when undefined
  sockets,            \* every WebSocket constructed by createSocket so far
  timers,             \* reconnect callbacks scheduled by setTimeout, not yet run
  deferreds,          \* the Deferred of each makeCall invocation
  eventDeferreds,     \* the Deferred of each onEvent invocation
  inbound,            \* the Deferred of each handleCall dispatch
  socketEventsListeners, \* self.socketEventsListeners: array of callables
  last,               \* the handler or operation that ran last
  fired,              \* what callEvents did during the last handler, in order
  sent                \* the socket.send calls of the last handler, in order

vars == <<id, eventId, socketStarted, eventStore, connectionNumber,
          oneTimeEventStore, callQueue, asyncRoutes, routes, store, socket,
          sockets, timers, deferreds, eventDeferreds, inbound,
          socketEventsListeners, last, fired, sent>>

\* ------------------------------------------------------------- utilities
Range(f) == {f[x] : x \in DOMAIN f}

Min(S) == CHOOSE x \in S : \A y \in S : x <= y

RECURSIVE SortedSeq(_)
SortedSeq(S) ==
  IF S = {} THEN <<>> ELSE <<Min(S)>> \o SortedSeq(S \ {Min(S)})

\* obj[key] = value on a JavaScript object used as a map
Put(obj, key, value) ==
  [x \in DOMAIN obj \cup {key} |-> IF x = key THEN value ELSE obj[x]]

\* delete obj[key]
Delete(obj, key) == [x \in DOMAIN obj \ {key} |-> obj[x]]

\* What ran last: op on socket ws, about call or dispatch k; exc is the first
\* exception raised inside it, escaped whether an exception left the handler.
Did(op, ws, k, st, noWait, exc, escaped) ==
  [op |-> op, ws |-> ws, k |-> k, state |-> st, noWait |-> noWait,
   exc |-> exc, escaped |-> escaped]

NoOp == Did("init", 0, 0, "", FALSE, "", FALSE)

\* ------------------------------------------------------------- Deferred
\* new Deferred(): pending.  The other fields record which call it belongs to.
Deferred(callId, method, noWait) ==
  [done |-> FALSE, outcome |-> "pending", value |-> "",
   id |-> callId, method |-> method, noWait |-> noWait,
   tx |-> 0, sentOn |-> 0, answer |-> ""]

\* wrapper(func): throws when the Deferred is done, else marks it done and settles
wrapper(d, outcome, value) ==
  IF d.done
    THEN [exc |-> "Promise already done", deferred |-> d]
    ELSE [exc |-> "",
          deferred |-> [d EXCEPT !.done = TRUE, !.outcome = outcome, !.value = value]]

isPending(d) == ~d.done

\* ------------------------------------------------------------ WebSocket
\* new WebSocket(URL); errorFired, closeFired and destroyed note what has
\* happened to the object since
WebSocket ==
  [readyState |-> CONNECTING, errorFired |-> FALSE, closeFired |-> FALSE,
   destroyed |-> FALSE]

\* the public stateCode() and state()
stateCode ==
  IF socketStarted /\ socket # 0 THEN sockets[socket].readyState ELSE 3

state == readyState(stateCode)

\* self.socket.send(text): what the call does, by the state of self.socket
send(socks, s) ==
  IF s = 0 THEN "TypeError"
  ELSE IF socks[s].readyState = CONNECTING THEN "InvalidStateError"
  ELSE IF socks[s].readyState = OPEN THEN "sent"
  ELSE "discarded"

Threw(outcome) == outcome \in {"TypeError", "InvalidStateError"}

\* one socket.send call of a handler: target, frame and what became of it
Sent(s, frame, outcome) == [ws |-> s, frame |-> frame, outcome |-> outcome]

\* ------------------------------------------------------------- frames
CallFrame(callId, method, k) ==
  [id |-> callId, fields |-> {"id", "method", "params"}, method |-> method,
   result |-> "", error |-> "", k |-> k]

ResultFrame(callId, result) ==
  [id |-> callId, fields |-> {"id", "result"}, method |-> "",
   result |-> result, error |-> "", k |-> 0]

ErrorFrame(callId, error) ==
  [id |-> callId, fields |-> {"id", "error"}, method |-> "",
   result |-> "", error |-> error, k |-> 0]

\* the frame the catch block of ws.onmessage builds
ExceptionFrame(message, callId) ==
  [id |-> callId, fields |-> {"id", "error", "result"}, method |-> "",
   result |-> "null", error |-> message, k |-> 0]

\* what a reply frame says: a result, an error, or the exception's message
Kind(data) ==
  IF data.fields = {"id", "result"} THEN "result"
  ELSE IF data.fields = {"id", "error"} THEN "error"
  ELSE data.error

\* ---------------------------------------------------------- rejectQueue
\* the while loop of rejectQueue: shift each call object, delete its store
\* entry and reject the Deferred found there when it is pending
RECURSIVE DrainQueue(_, _, _)
DrainQueue(q, st, ds) ==
  IF q = <<>> THEN [store |-> st, deferreds |-> ds]
  ELSE LET callObj == Head(q)
           found == callObj.id \in DOMAIN st
           k == IF found THEN st[callObj.id] ELSE 0
           ds2 == IF found /\ isPending(ds[k])
                    THEN [ds EXCEPT ![k] = wrapper(@, "rejected", "WebSocket error occurred").deferred]
                    ELSE ds
       IN DrainQueue(Tail(q), Delete(st, callObj.id), ds2)

\* the for-in loop of rejectQueue: reject what is pending, delete nothing
RejectStore(st, ds) ==
  [k \in DOMAIN ds |->
     IF k \in Range(st) /\ isPending(ds[k])
       THEN wrapper(ds[k], "rejected", "WebSocket error occurred").deferred
       ELSE ds[k]]

rejectQueue(q, st, ds) ==
  LET drained == DrainQueue(q, st, ds)
  IN [callQueue |-> <<>>,
      store |-> drained.store,
      deferreds |-> RejectStore(drained.store, drained.deferreds)]

\* the for-in loop at the head of ws.onclose: reject every Deferred of the
\* store, in ascending key order, without asking whether it is pending; the
\* first one that is done makes wrapper throw and ends the handler
CloseLoop(st, ds) ==
  LET stale == {i \in DOMAIN st : ds[st[i]].done}
      stop == IF stale = {} THEN 0 ELSE Min(stale)
  IN [exc |-> IF stale = {} THEN "" ELSE "Promise already done",
      deferreds |->
        [k \in DOMAIN ds |->
           IF \E i \in DOMAIN st : st[i] = k /\ (stale = {} \/ i < stop)
             THEN wrapper(ds[k], "rejected", "Connection closed").deferred
             ELSE ds[k]]]

\* ----------------------------------------------------------- callEvents
Fire(ev) == [kind |-> "fire", ev |-> ev, n |-> 0]
Resolved(ev, n) == [kind |-> "oneTime", ev |-> ev, n |-> n]
Called(ev, n) == [kind |-> "listener", ev |-> ev, n |-> n]

\* callEvents with an if for its while: only the head of the queue is taken
DrainOneTimeHead(evName, ots, eds) ==
  LET q == ots[evName]
  IN IF q = <<>>
       THEN [fired |-> <<>>, oneTimeEventStore |-> ots, eventDeferreds |-> eds]
       ELSE [fired |-> IF isPending(eds[Head(q)])
                         THEN <<Resolved(evName, Head(q))>> ELSE <<>>,
             oneTimeEventStore |-> [ots EXCEPT ![evName] = Tail(q)],
             eventDeferreds |->
               [eds EXCEPT ![Head(q)] =
                  IF isPending(@) THEN wrapper(@, "resolved", "").deferred ELSE @]]

\* the while loop of callEvents: shift every Deferred of the one-time queue
\* and resolve it when it is pending
DrainOneTime(evName, ots, eds) ==
  LET q == ots[evName]
      pending == SelectSeq(q, LAMBDA n : isPending(eds[n]))
  IN [fired |-> [i \in 1..Len(pending) |-> Resolved(evName, pending[i])],
      oneTimeEventStore |-> [ots EXCEPT ![evName] = <<>>],
      eventDeferreds |->
        [n \in DOMAIN eds |->
           IF n \in Range(q) /\ isPending(eds[n])
             THEN wrapper(eds[n], "resolved", "").deferred
             ELSE eds[n]]]

\* the for-in loop of callEvents: tryCallEvent on every listener, ascending id
CallListeners(evName, es) ==
  LET order == SortedSeq(es[evName])
  IN [i \in 1..Len(order) |-> Called(evName, order[i])]

callEvents(evName, ots, eds, es) ==
  LET drained == DrainOneTime(evName, ots, eds)
  IN [fired |-> <<Fire(evName)>> \o drained.fired \o CallListeners(evName, es),
      oneTimeEventStore |-> drained.oneTimeEventStore,
      eventDeferreds |-> drained.eventDeferreds]

\* callEvents(first, ..); callEvents('onchange', ..)
callEventsAndChange(first, ots, eds, es) ==
  LET a == callEvents(first, ots, eds, es)
      b == callEvents("onchange", a.oneTimeEventStore, a.eventDeferreds, es)
  IN [fired |-> a.fired \o b.fired,
      oneTimeEventStore |-> b.oneTimeEventStore,
      eventDeferreds |-> b.eventDeferreds]

\* a catch block of reconnect that only logs the exception
reconnectFailedSilent(ots, eds, es) ==
  [fired |-> <<>>, oneTimeEventStore |-> ots, eventDeferreds |-> eds]

\* what the catch block of reconnect fires
reconnectFailed(ots, eds, es) == callEvents("onerror", ots, eds, es)

\* ------------------------------------------------- server event listeners
\* a callable of self.socketEventsListeners, with the id that
\* addServerEventListener returned for it (-1 for the constructor's logger)
Listener(fn, index) == [fn |-> fn, id |-> index]

\* the callables a program registers
Callables == 1..MaxServerListeners

\* arr.push(callable) - 1
push(arr, fn) == [array |-> Append(arr, Listener(fn, Len(arr))), returned |-> Len(arr)]

\* arr.splice(index, 1) for index >= 0: positions count from 0
splice(arr, index) ==
  IF index + 1 \in DOMAIN arr
    THEN [array |-> SubSeq(arr, 1, index) \o SubSeq(arr, index + 2, Len(arr)),
          removed |-> <<arr[index + 1]>>]
    ELSE [array |-> arr, removed |-> <<>>]

Init ==
  /\ id = InitialId
  /\ eventId = 0
  /\ socketStarted = FALSE
  /\ eventStore = [e \in EvNames |-> {}]
  /\ connectionNumber = 0
  /\ oneTimeEventStore = [e \in EvNames |-> <<>>]
  /\ callQueue = <<>>
  /\ asyncRoutes = [r \in {"log", "ping"} |-> FALSE]
  /\ routes = {"log", "ping"}
  /\ store = <<>>
  /\ socket = 0
  /\ sockets = <<>>
  /\ timers = 0
  /\ deferreds = <<>>
  /\ eventDeferreds = <<>>
  /\ inbound = <<>>
  /\ socketEventsListeners = <<Listener(0, -1)>>
  /\ last = NoOp
  /\ fired = <<>>
  /\ sent = <<>>

\* --------------------------------------------------- public: connect, destroy
\* connect(): socketStarted is set even when the construction throws
connect(limit, throws) ==
  /\ socketStarted' = TRUE
  /\ IF throws
       THEN UNCHANGED <<socket, sockets>>
       ELSE /\ Len(sockets) < limit
            /\ sockets' = Append(sockets, WebSocket)
            /\ socket' = Len(sockets) + 1
  /\ last' = Did("connect", 0, 0, "", FALSE, IF throws THEN "WebSocket" ELSE "", throws)
  /\ fired' = <<>>
  /\ sent' = <<>>
  /\ UNCHANGED <<id, eventId, eventStore, connectionNumber, oneTimeEventStore,
                 callQueue, asyncRoutes, routes, store, timers, deferreds,
                 eventDeferreds, inbound,
                 socketEventsListeners>>

\* destroy(): self.socket.close()
destroy ==
  /\ IF socket = 0
       THEN UNCHANGED sockets
       ELSE sockets' =
              [sockets EXCEPT ![socket].readyState =
                 IF @ \in {CONNECTING, OPEN} THEN CLOSING ELSE @]
  /\ last' = Did("destroy", socket, 0, "", FALSE,
                 IF socket = 0 THEN "TypeError" ELSE "", socket = 0)
  /\ fired' = <<>>
  /\ sent' = <<>>
  /\ UNCHANGED <<id, eventId, socketStarted, eventStore, connectionNumber,
                 oneTimeEventStore, callQueue, asyncRoutes, routes, store, socket,
                 timers, deferreds, eventDeferreds, inbound,
                 socketEventsListeners>>

\* destroy(), with a note left on the transport that destroy() closed
destroyNoted ==
  /\ IF socket = 0
       THEN UNCHANGED sockets
       ELSE sockets' =
              IF sockets[socket].readyState \in {CONNECTING, OPEN}
                THEN [sockets EXCEPT ![socket].readyState = CLOSING,
                                     ![socket].destroyed = TRUE]
                ELSE sockets
  /\ last' = Did("destroy", socket, 0, "", FALSE,
                 IF socket = 0 THEN "TypeError" ELSE "", socket = 0)
  /\ fired' = <<>>
  /\ sent' = <<>>
  /\ UNCHANGED <<id, eventId, socketStarted, eventStore, connectionNumber,
                 oneTimeEventStore, callQueue, asyncRoutes, routes, store, socket,
                 timers, deferreds, eventDeferreds, inbound,
                 socketEventsListeners>>

\* ------------------------------------------------------ ws.onclose, reconnect
onclose(w) ==
  /\ w \in DOMAIN sockets
  /\ ~sockets[w].closeFired
  /\ sockets' = [sockets EXCEPT ![w].readyState = CLOSED, ![w].closeFired = TRUE]
  /\ LET loop == CloseLoop(store, deferreds)
         rq == rejectQueue(callQueue, store, loop.deferreds)
         ce == callEventsAndChange("onclose", oneTimeEventStore, eventDeferreds, eventStore)
     IN /\ last' = Did("onclose", w, 0, "", FALSE, loop.exc, loop.exc # "")
        /\ IF loop.exc # ""
             THEN /\ deferreds' = loop.deferreds
                  /\ fired' = <<>>
                  /\ UNCHANGED <<connectionNumber, callQueue, store,
                                 oneTimeEventStore, eventDeferreds, timers>>
             ELSE /\ connectionNumber' = connectionNumber + 1
                  /\ callQueue' = rq.callQueue
                  /\ store' = rq.store
                  /\ deferreds' = rq.deferreds
                  /\ fired' = ce.fired
                  /\ oneTimeEventStore' = ce.oneTimeEventStore
                  /\ eventDeferreds' = ce.eventDeferreds
                  /\ timers' = timers + 1
  /\ sent' = <<>>
  /\ UNCHANGED <<id, eventId, socketStarted, eventStore, asyncRoutes, routes,
                 socket, inbound,
                 socketEventsListeners>>

\* the setTimeout callback of reconnect
reconnect(limit, throws) ==
  /\ timers > 0
  /\ timers' = timers - 1
  /\ IF throws
       THEN LET ce == reconnectFailed(oneTimeEventStore, eventDeferreds, eventStore)
            IN /\ fired' = ce.fired
               /\ oneTimeEventStore' = ce.oneTimeEventStore
               /\ eventDeferreds' = ce.eventDeferreds
               /\ socket' = 0
               /\ UNCHANGED <<sockets, id>>
       ELSE /\ Len(sockets) < limit
            /\ sockets' = Append(sockets, WebSocket)
            /\ socket' = Len(sockets) + 1
            /\ id' = InitialId
            /\ fired' = <<>>
            /\ UNCHANGED <<oneTimeEventStore, eventDeferreds>>
  /\ last' = Did("reconnect", 0, 0, "", FALSE, IF throws THEN "WebSocket" ELSE "", FALSE)
  /\ sent' = <<>>
  /\ UNCHANGED <<eventId, socketStarted, eventStore, connectionNumber, callQueue,
                 asyncRoutes, routes, store, deferreds, inbound,
                 socketEventsListeners>>

\* ----------------------------------------------------------------- ws.onerror
onerror(w) ==
  /\ w \in DOMAIN sockets
  /\ ~sockets[w].closeFired
  /\ ~sockets[w].errorFired
  /\ sockets' = [sockets EXCEPT ![w].readyState = CLOSED, ![w].errorFired = TRUE]
  /\ LET rq == rejectQueue(callQueue, store, deferreds)
         ce == callEventsAndChange("onerror", oneTimeEventStore, eventDeferreds, eventStore)
     IN /\ connectionNumber' = connectionNumber + 1
        /\ callQueue' = rq.callQueue
        /\ store' = rq.store
        /\ deferreds' = rq.deferreds
        /\ fired' = ce.fired
        /\ oneTimeEventStore' = ce.oneTimeEventStore
        /\ eventDeferreds' = ce.eventDeferreds
  /\ last' = Did("onerror", w, 0, "", FALSE, "", FALSE)
  /\ sent' = <<>>
  /\ UNCHANGED <<id, eventId, socketStarted, eventStore, asyncRoutes, routes,
                 socket, timers, inbound,
                 socketEventsListeners>>

\* ------------------------------------------------------------------ ws.onopen
\* the while loop of ws.onopen.  self.socket.send is looked up before the
\* argument is evaluated: with no self.socket the TypeError leaves the queue
\* whole; a send that throws has already shifted its call object.
flush(q, socks, s) ==
  LET outcome == IF q = <<>> THEN "" ELSE send(socks, s)
  IN [exc |-> IF Threw(outcome) THEN outcome ELSE "",
      callQueue |-> CASE outcome = "TypeError" -> q
                      [] outcome = "InvalidStateError" -> Tail(q)
                      [] OTHER -> <<>>,
      sent |-> CASE outcome = "TypeError" -> <<>>
                 [] outcome = "InvalidStateError" ->
                      <<Sent(s, CallFrame(q[1].id, q[1].method, q[1].k), outcome)>>
                 [] OTHER ->
                      [i \in 1..Len(q) |->
                         Sent(s, CallFrame(q[i].id, q[i].method, q[i].k), outcome)]]

\* the calls a list of sends transmitted, recorded on their Deferreds
Transmit(ds, log) ==
  [k \in DOMAIN ds |->
     LET mine == {i \in DOMAIN log : log[i].frame.k = k /\ log[i].outcome = "sent"}
     IN IF mine = {} THEN ds[k]
        ELSE [ds[k] EXCEPT !.tx = @ + Cardinality(mine),
                           !.sentOn = log[Min(mine)].ws]]

onopen(w) ==
  /\ w \in DOMAIN sockets
  /\ sockets[w].readyState = CONNECTING
  /\ sockets' = [sockets EXCEPT ![w].readyState = OPEN]
  /\ LET fl == flush(callQueue, sockets', socket)
         ce == callEventsAndChange("onconnect", oneTimeEventStore, eventDeferreds, eventStore)
     IN /\ callQueue' = fl.callQueue
        /\ sent' = fl.sent
        /\ deferreds' = Transmit(deferreds, fl.sent)
        /\ last' = Did("onopen", w, 0, "", FALSE, fl.exc, fl.exc # "")
        /\ IF fl.exc # ""
             THEN /\ fired' = <<>>
                  /\ UNCHANGED <<oneTimeEventStore, eventDeferreds>>
             ELSE /\ fired' = ce.fired
                  /\ oneTimeEventStore' = ce.oneTimeEventStore
                  /\ eventDeferreds' = ce.eventDeferreds
  /\ UNCHANGED <<id, eventId, socketStarted, eventStore, connectionNumber,
                 asyncRoutes, routes, store, socket, timers, inbound,
                 socketEventsListeners>>

\* ------------------------------------------------------------------- makeCall
\* the template literal `Socket is: ${state}`
SocketIs(st) ==
  CASE st = "CONNECTING" -> "Socket is: CONNECTING"
    [] st = "OPEN"       -> "Socket is: OPEN"
    [] st = "CLOSING"    -> "Socket is: CLOSING"
    [] OTHER             -> "Socket is: CLOSED"

\* makeCall rejecting a noWait call only when the state is CLOSED
callBranchClosedOnly(st, noWait) ==
  IF st = "OPEN" THEN "send"
  ELSE IF st = "CONNECTING" THEN "queue"
  ELSE IF noWait /\ st = "CLOSED" THEN "reject"
  ELSE "queue"

\* the if / else-if / else of makeCall
callBranch(st, noWait) ==
  IF st = "OPEN" THEN "send"
  ELSE IF st = "CONNECTING" THEN "queue"
  ELSE IF noWait THEN "reject"
  ELSE "queue"

makeCall(limit, method, noWait) ==
  /\ Len(deferreds) < limit
  /\ LET callId == id + IdStep
         k == Len(deferreds) + 1
         deferred == Deferred(callId, method, noWait)
         callObj == [id |-> callId, method |-> method, k |-> k]
         branch == callBranch(state, noWait)
         log == IF branch = "send"
                  THEN <<Sent(socket, CallFrame(callId, method, k), send(sockets, socket))>>
                  ELSE <<>>
     IN /\ id' = callId
        /\ store' = IF branch = "reject" THEN store ELSE Put(store, callId, k)
        /\ callQueue' = IF branch = "queue" THEN Append(callQueue, callObj) ELSE callQueue
        /\ deferreds' =
             Transmit(Append(deferreds,
                             IF branch = "reject"
                               THEN wrapper(deferred, "rejected", SocketIs(state)).deferred
                               ELSE deferred),
                      log)
        /\ sent' = log
        /\ last' = Did("call", socket, k, state, noWait, "", FALSE)
  /\ fired' = <<>>
  /\ UNCHANGED <<eventId, socketStarted, eventStore, connectionNumber,
                 oneTimeEventStore, asyncRoutes, routes, socket, sockets, timers,
                 eventDeferreds, inbound,
                 socketEventsListeners>>

\* ------------------------------------------- ws.onmessage: reply frames
\* the else-if chain of ws.onmessage for a frame that has an id
classify(data) ==
  IF "method" \in data.fields THEN "handleCall"
  ELSE IF "error" \in data.fields /\ data.error = "null" THEN "handleError"
  ELSE "handleResult"

\* handleError: look the id up, delete the entry, reject
handleError(data, st, ds) ==
  IF data.id \notin DOMAIN st
    THEN [exc |-> "", store |-> st, deferreds |-> ds]
    ELSE LET k == st[data.id]
             r == wrapper(ds[k], "rejected", data.error)
         IN [exc |-> r.exc, store |-> Delete(st, data.id),
             deferreds |-> [ds EXCEPT ![k] = r.deferred]]

\* handleResult: look the id up, delete the entry, resolve when the frame
\* has a result field and reject otherwise
handleResult(data, st, ds) ==
  IF data.id \notin DOMAIN st
    THEN [exc |-> "", store |-> st, deferreds |-> ds]
    ELSE LET k == st[data.id]
             r == IF "result" \in data.fields
                    THEN wrapper(ds[k], "resolved", data.result)
                    ELSE wrapper(ds[k], "rejected", data.error)
         IN [exc |-> r.exc, store |-> Delete(st, data.id),
             deferreds |-> [ds EXCEPT ![k] = r.deferred]]

\* the catch block of ws.onmessage: one send of the exception frame
catch(exc, callId, socks, s) ==
  IF exc = "" THEN <<>>
  ELSE <<Sent(s, ExceptionFrame(exc, callId), send(socks, s))>>

\* whether a send of the log threw
Escaped(log) == \E i \in DOMAIN log : Threw(log[i].outcome)

\* a reply frame arrives on socket w; answers is the call whose transmitted
\* envelope the peer is answering with it, 0 when the frame is unsolicited
onmessageReply(w, data, answers) ==
  /\ w \in DOMAIN sockets
  /\ sockets[w].readyState = OPEN
  /\ classify(data) # "handleCall"
  /\ LET r == IF classify(data) = "handleError"
                THEN handleError(data, store, deferreds)
                ELSE handleResult(data, store, deferreds)
         log == catch(r.exc, data.id, sockets, socket)
     IN /\ store' = r.store
        /\ deferreds' =
             IF answers = 0 THEN r.deferreds
             ELSE [r.deferreds EXCEPT ![answers].answer = Kind(data)]
        /\ sent' = log
        /\ last' = Did("onmessage", w, answers, "", FALSE, r.exc, Escaped(log))
  /\ fired' = <<>>
  /\ UNCHANGED <<id, eventId, socketStarted, eventStore, connectionNumber,
                 oneTimeEventStore, callQueue, asyncRoutes, routes, socket,
                 sockets, timers, eventDeferreds, inbound,
                 socketEventsListeners>>

\* the ids a call of this run can carry
CallIds == {InitialId + IdStep * n : n \in 1..MaxCalls}

\* reply frames a peer can send unasked: result, error, error null
ReplyFrames ==
  UNION {{ResultFrame(i, "R"), ErrorFrame(i, "E"), ErrorFrame(i, "null")} : i \in CallIds}

\* ------------------------------------------- ws.onmessage: call frames
\* what a route's callback does when handleCall applies it
SyncBehaviours == {"return", "raise"}
AsyncBehaviours == {"pending", "resolve", "reject", "raise", "resolveRaise", "rejectRaise"}

\* handleCall up to its return: the exception it lets out, whether it made a
\* Deferred, and how that Deferred stands when the callback has returned
handleCall(rts, ars, method, b) ==
  IF method \notin rts
    THEN [exc |-> "Route not found", created |-> FALSE, outcome |-> "pending"]
  ELSE IF ars[method]
    THEN [exc |-> IF b \in {"raise", "resolveRaise", "rejectRaise"}
                    THEN "handler error" ELSE "",
          created |-> TRUE,
          outcome |-> CASE b \in {"resolve", "resolveRaise"} -> "resolved"
                        [] b \in {"reject", "rejectRaise"} -> "rejected"
                        [] OTHER -> "pending"]
    ELSE [exc |-> "", created |-> TRUE,
          outcome |-> IF b = "return" THEN "resolved" ELSE "rejected"]

\* the two callbacks of deferred.promise.then in handleCall: nothing when
\* the connection number moved, else one send on self.socket
thenSend(captured, current, outcome, callId, socks, s) ==
  IF outcome = "pending" \/ captured # current THEN <<>>
  ELSE <<Sent(s, IF outcome = "resolved" THEN ResultFrame(callId, "R")
                                          ELSE ErrorFrame(callId, "E"),
              send(socks, s))>>

Transmitted(log) == Cardinality({i \in DOMAIN log : log[i].outcome = "sent"})

\* the id of the next inbound call frame: the peer counts as makeCall does
InboundId == InitialId + IdStep * (Len(inbound) + 1)

\* a call frame for method arrives on socket w; b is what the callback does
onmessageCall(w, method, b) ==
  /\ w \in DOMAIN sockets
  /\ sockets[w].readyState = OPEN
  /\ Len(inbound) < MaxInbound
  /\ b \in (IF method \in routes /\ asyncRoutes[method]
              THEN AsyncBehaviours ELSE SyncBehaviours)
  /\ method \in routes \/ b = "return"
  /\ LET r == handleCall(routes, asyncRoutes, method, b)
         log == catch(r.exc, InboundId, sockets, socket)
                  \o thenSend(connectionNumber, connectionNumber, r.outcome,
                              InboundId, sockets, socket)
     IN /\ inbound' =
             Append(inbound,
                    [done |-> r.outcome # "pending", outcome |-> r.outcome,
                     value |-> "", id |-> InboundId, method |-> method,
                     created |-> r.created,
                     async |-> r.created /\ asyncRoutes[method],
                     connectionNumber |-> connectionNumber, ws |-> w,
                     replies |-> Transmitted(log)])
        /\ sent' = log
        /\ last' = Did("onmessage", w, Len(inbound) + 1, "", FALSE, r.exc,
                       r.exc # "" /\ Threw(log[1].outcome))
  /\ fired' = <<>>
  /\ UNCHANGED <<id, eventId, socketStarted, eventStore, connectionNumber,
                 oneTimeEventStore, callQueue, asyncRoutes, routes, store, socket,
                 sockets, timers, deferreds, eventDeferreds,
                 socketEventsListeners>>

\* the callback of an async route settles the Deferred it was applied to
settle(n, outcome) ==
  /\ n \in DOMAIN inbound
  /\ inbound[n].async
  /\ isPending(inbound[n])
  /\ LET log == thenSend(inbound[n].connectionNumber, connectionNumber, outcome,
                         inbound[n].id, sockets, socket)
     IN /\ inbound' = [inbound EXCEPT ![n] =
                         [wrapper(@, outcome, "").deferred
                            EXCEPT !.replies = @ + Transmitted(log)]]
        /\ sent' = log
        /\ last' = Did("settle", 0, n, "", FALSE, "", FALSE)
  /\ fired' = <<>>
  /\ UNCHANGED <<id, eventId, socketStarted, eventStore, connectionNumber,
                 oneTimeEventStore, callQueue, asyncRoutes, routes, store, socket,
                 sockets, timers, deferreds, eventDeferreds,
                 socketEventsListeners>>

\* ---------------------------------------------------- the peer of a call
\* The other end of the connection runs this program with the routes its
\* constructor registers: it answers a call frame with what its ws.onmessage
\* sends for it.
BuiltinRoutes == {"log", "ping"}

peerAnswer(callId, method) ==
  LET r == handleCall(BuiltinRoutes, [m \in BuiltinRoutes |-> FALSE], method, "return")
  IN IF r.exc # "" THEN ExceptionFrame(r.exc, callId)
     ELSE IF r.outcome = "resolved" THEN ResultFrame(callId, "R")
     ELSE ErrorFrame(callId, "E")

\* the peer's answer to call k reaches the socket the call was sent on
answer(k) ==
  /\ k \in DOMAIN deferreds
  /\ deferreds[k].sentOn # 0
  /\ deferreds[k].answer = ""
  /\ onmessageReply(deferreds[k].sentOn,
                    peerAnswer(deferreds[k].id, deferreds[k].method), k)

\* -------------------------------------------------- public: routes, events
addRoute(route, isAsync) ==
  /\ asyncRoutes' = Put(asyncRoutes, route, isAsync)
  /\ routes' = routes \cup {route}
  /\ last' = Did("addRoute", 0, 0, "", FALSE, "", FALSE)
  /\ fired' = <<>>
  /\ sent' = <<>>
  /\ UNCHANGED <<id, eventId, socketStarted, eventStore, connectionNumber,
                 oneTimeEventStore, callQueue, store, socket, sockets, timers,
                 deferreds, eventDeferreds, inbound,
                 socketEventsListeners>>

deleteRoute(route) ==
  /\ asyncRoutes' = Delete(asyncRoutes, route)
  /\ routes' = routes \ {route}
  /\ last' = Did("deleteRoute", 0, 0, "", FALSE, "", FALSE)
  /\ fired' = <<>>
  /\ sent' = <<>>
  /\ UNCHANGED <<id, eventId, socketStarted, eventStore, connectionNumber,
                 oneTimeEventStore, callQueue, store, socket, sockets, timers,
                 deferreds, eventDeferreds, inbound,
                 socketEventsListeners>>

addEventListener(event) ==
  /\ eventId < MaxListeners
  /\ eventId' = eventId + 1
  /\ eventStore' = [eventStore EXCEPT ![event] = @ \cup {eventId}]
  /\ last' = Did("addEventListener", 0, eventId, "", FALSE, "", FALSE)
  /\ fired' = <<>>
  /\ sent' = <<>>
  /\ UNCHANGED <<id, socketStarted, connectionNumber, oneTimeEventStore, callQueue,
                 asyncRoutes, routes, store, socket, sockets, timers, deferreds,
                 eventDeferreds, inbound,
                 socketEventsListeners>>

removeEventListener(event, index) ==
  /\ index \in eventStore[event]
  /\ eventStore' = [eventStore EXCEPT ![event] = @ \ {index}]
  /\ last' = Did("removeEventListener", 0, index, "", FALSE, "", FALSE)
  /\ fired' = <<>>
  /\ sent' = <<>>
  /\ UNCHANGED <<id, eventId, socketStarted, connectionNumber, oneTimeEventStore,
                 callQueue, asyncRoutes, routes, store, socket, sockets, timers,
                 deferreds, eventDeferreds, inbound,
                 socketEventsListeners>>

\* onEvent(event): a new Deferred at the end of the one-time queue
subscribe(qs, event, n) == [qs EXCEPT ![event] = Append(@, n)]

onEvent(event) ==
  /\ Len(eventDeferreds) < MaxOnEvent
  /\ eventDeferreds' =
       Append(eventDeferreds,
              [done |-> FALSE, outcome |-> "pending", value |-> "", ev |-> event])
  /\ oneTimeEventStore' = subscribe(oneTimeEventStore, event, Len(eventDeferreds) + 1)
  /\ last' = Did("onEvent", 0, Len(eventDeferreds) + 1, "", FALSE, "", FALSE)
  /\ fired' = <<>>
  /\ sent' = <<>>
  /\ UNCHANGED <<id, eventId, socketStarted, eventStore, connectionNumber, callQueue,
                 asyncRoutes, routes, store, socket, sockets, timers, deferreds,
                 inbound,
                 socketEventsListeners>>

addServerEventListener(callable) ==
  /\ \A i \in DOMAIN socketEventsListeners : socketEventsListeners[i].fn # callable
  /\ socketEventsListeners' = push(socketEventsListeners, callable).array
  /\ last' = Did("addServerEventListener", 0,
                 push(socketEventsListeners, callable).returned, "", FALSE, "", FALSE)
  /\ fired' = <<>>
  /\ sent' = <<>>
  /\ UNCHANGED <<id, eventId, socketStarted, eventStore, connectionNumber,
                 oneTimeEventStore, callQueue, asyncRoutes, routes, store, socket,
                 sockets, timers, deferreds, eventDeferreds, inbound>>

\* removeServerEventListener(index), called with the id of a listener that
\* is registered
removeServerEventListener(index) ==
  /\ \E i \in DOMAIN socketEventsListeners : socketEventsListeners[i].id = index
  /\ socketEventsListeners' = splice(socketEventsListeners, index).array
  /\ last' = Did("removeServerEventListener", 0, index, "", FALSE, "", FALSE)
  /\ fired' = <<>>
  /\ sent' = <<>>
  /\ UNCHANGED <<id, eventId, socketStarted, eventStore, connectionNumber,
                 oneTimeEventStore, callQueue, asyncRoutes, routes, store, socket,
                 sockets, timers, deferreds, eventDeferreds, inbound>>

\* ws.onmessage for a frame without an id: every listener of the array is
\* applied, in order, and what it throws is caught
onmessageEvent(w) ==
  /\ w \in DOMAIN sockets
  /\ sockets[w].readyState = OPEN
  /\ fired' = [i \in DOMAIN socketEventsListeners |->
                 Called("event", socketEventsListeners[i].fn)]
  /\ last' = Did("onmessage", w, 0, "", FALSE, "", FALSE)
  /\ sent' = <<>>
  /\ UNCHANGED <<id, eventId, socketStarted, eventStore, connectionNumber,
                 oneTimeEventStore, callQueue, asyncRoutes, routes, store, socket,
                 sockets, timers, deferreds, eventDeferreds, inbound,
                 socketEventsListeners>>

\* the transports' events, connect, destroy and the reconnect timer, with at
\* most limit transports constructed
Lifecycle(limit) ==
  \/ \E throws \in BOOLEAN : connect(limit, throws)
  \/ destroy
  \/ \E w \in 1..limit : onopen(w)
  \/ \E w \in 1..limit : onerror(w)
  \/ \E w \in 1..limit : onclose(w)
  \/ \E throws \in BOOLEAN : reconnect(limit, throws)

\* the session as a caller: calls, the peer's answers, unsolicited replies
Next ==
  \/ Lifecycle(MaxSockets)
  \/ \E noWait \in BOOLEAN : makeCall(MaxCalls, "ping", noWait)
  \/ \E k \in 1..MaxCalls : answer(k)
  \/ \E w \in 1..MaxSockets, data \in ReplyFrames : onmessageReply(w, data, 0)

Spec == Init /\ [][Next]_vars

\* calls with and without noWait in every state of the session
NextNoWait ==
  \/ Lifecycle(NoWaitSockets)
  \/ \E noWait \in BOOLEAN : makeCall(NoWaitCalls, "ping", noWait)
  \/ \E k \in 1..NoWaitCalls : answer(k)

SpecNoWait == Init /\ [][NextNoWait]_vars

\* two peers: calls of registered and unregistered methods and their answers
NextPeers ==
  \/ Lifecycle(MaxSockets)
  \/ \E m \in Methods : makeCall(MaxCalls, m, FALSE)
  \/ \E k \in 1..MaxCalls : answer(k)

SpecPeers == Init /\ [][NextPeers]_vars

\* the session as a callee: inbound call frames and the route table
NextDispatch ==
  \/ Lifecycle(MaxSockets)
  \/ \E w \in 1..MaxSockets, m \in Methods, b \in SyncBehaviours \cup AsyncBehaviours :
       onmessageCall(w, m, b)
  \/ \E n \in 1..MaxInbound, outcome \in {"resolved", "rejected"} : settle(n, outcome)
  \/ \E isAsync \in BOOLEAN : addRoute("doStuff", isAsync)
  \/ deleteRoute("doStuff")

SpecDispatch == Init /\ [][NextDispatch]_vars

\* the lifecycle events and their subscribers
NextEvents ==
  \/ Lifecycle(EventSockets)
  \/ \E e \in SubscribedEvents : onEvent(e)
  \/ \E e \in SubscribedEvents : addEventListener(e)
  \/ \E e \in SubscribedEvents, i \in 0..MaxListeners : removeEventListener(e, i)

SpecEvents == Init /\ [][NextEvents]_vars

\* an async route whose callback settles late, across new transports and
\* transports that fail or close on their own, next to one outbound call
NextLate ==
  \/ \E throws \in BOOLEAN : connect(LateSockets, throws)
  \/ \E w \in 1..LateSockets : onopen(w)
  \/ \E w \in 1..LateSockets : onerror(w)
  \/ \E w \in 1..LateSockets : onclose(w)
  \/ \E throws \in BOOLEAN : reconnect(LateSockets, throws)
  \/ makeCall(LateCalls, "ping", FALSE)
  \/ addRoute("doStuff", TRUE)
  \/ \E w \in 1..LateSockets : onmessageCall(w, "doStuff", "pending")
  \/ \E n \in 1..MaxInbound, outcome \in {"resolved", "rejected"} : settle(n, outcome)

SpecLate == Init /\ [][NextLate]_vars

\* the lifecycle alone, with every destroy() noted on the transport it closed
NextDestroy ==
  \/ \E throws \in BOOLEAN : connect(DestroySockets, throws)
  \/ destroyNoted
  \/ \E w \in 1..DestroySockets : onopen(w)
  \/ \E w \in 1..DestroySockets : onerror(w)
  \/ \E w \in 1..DestroySockets : onclose(w)
  \/ \E throws \in BOOLEAN : reconnect(DestroySockets, throws)

SpecDestroy == Init /\ [][NextDestroy]_vars

\* the listeners of server events: registrations, removals and event frames
NextServerEvents ==
  \/ Lifecycle(ServerSockets)
  \/ \E callable \in Callables : addServerEventListener(callable)
  \/ \E index \in 0..MaxServerListeners : removeServerEventListener(index)
  \/ \E w \in 1..ServerSockets : onmessageEvent(w)

SpecServerEvents == Init /\ [][NextServerEvents]_vars

\* ===================================================================== claims
Calls == DOMAIN deferreds

\* the envelopes of a queue, as the frames a flush of it sends
Envelopes(q) == [i \in 1..Len(q) |-> CallFrame(q[i].id, q[i].method, q[i].k)]

Frames(log) == [i \in 1..Len(log) |-> log[i].frame]

\* C1: every close event of a transport fires the close listeners and
\* schedules a reconnection attempt, whatever calls, replies, error events
\* and reconnects came before.
C1_CloseFiresAndSchedules ==
  [][last'.op = "onclose" =>
       /\ Fire("onclose") \in Range(fired')
       /\ timers' = timers + 1]_vars

\* C2: no two invocations of call() are ever assigned the same call id.
C2_CallIdsDistinct ==
  \A j, k \in Calls : j # k => deferreds[j].id # deferreds[k].id

\* C3: when the handler of an error or close event has run, no call that
\* was accepted before the event is still pending.
C3_NonePendingAfterEvent ==
  last.op \in {"onerror", "onclose"} => \A k \in Calls : deferreds[k].done

\* C4: a call with noWait issued while state() is CLOSING or CLOSED is
\* rejected at once with a reason naming the state; the store and the queue
\* are left as they were, nothing is sent, and the envelope is never stored,
\* queued or transmitted afterwards.
C4_NoWaitRejected ==
  [][/\ (last'.op = "call" /\ last'.noWait /\ state \in {"CLOSING", "CLOSED"}) =>
          /\ deferreds'[last'.k].outcome = "rejected"
          /\ deferreds'[last'.k].value = SocketIs(state)
          /\ store' = store
          /\ callQueue' = callQueue
          /\ sent' = <<>>
     /\ \A k \in DOMAIN deferreds' :
          (deferreds'[k].noWait /\
             deferreds'[k].value \in {"Socket is: CLOSING", "Socket is: CLOSED"}) =>
            /\ k \notin Range(store')
            /\ \A i \in DOMAIN callQueue' : callQueue'[i].k # k
            /\ \A i \in DOMAIN sent' : sent'[i].frame.k # k
            /\ deferreds'[k].tx = 0]_vars

\* C4 witness: a noWait call made while CLOSING has just been rejected, while
\* an earlier noWait call made before any connect() stays rejected and unsent.
C4_Witness ==
  /\ last.op = "call" /\ last.noWait /\ last.state = "CLOSING"
  /\ deferreds[last.k].outcome = "rejected"
  /\ \E j \in Calls : j # last.k /\ deferreds[j].value = "Socket is: CLOSED"

\* C5: when a transport opens, every queued envelope is transmitted exactly
\* once, in the order the calls were issued, and the queue is empty when the
\* open handler finishes.
C5_OpenFlushesQueue ==
  [][last'.op = "onopen" =>
       /\ callQueue' = <<>>
       /\ Frames(sent') = Envelopes(callQueue)
       /\ \A i \in DOMAIN sent' : sent'[i].outcome = "sent"]_vars

\* C6: between two peers running this program, a call of a method the other
\* peer has no route for ends with the caller's future rejected.
C6_UnknownMethodRejects ==
  \A k \in Calls :
    deferreds[k].answer = "Route not found" => deferreds[k].outcome = "rejected"

\* C7: for an inbound call of a registered method the session sends at most
\* one reply frame, whatever the route's callback does.
C7_AtMostOneReply ==
  \A n \in DOMAIN inbound : inbound[n].created => inbound[n].replies <= 1

\* C8: an inbound call of a method with no route makes the session send
\* exactly one failure frame carrying the inbound id, applies no callback and
\* leaves routes and asyncRoutes as they were.
C8_UnknownMethodOneFailure ==
  [][(last'.op = "onmessage" /\ Len(inbound') > Len(inbound)
        /\ inbound'[last'.k].method \notin routes) =>
       /\ Len(sent') = 1
       /\ sent'[1].outcome = "sent"
       /\ sent'[1].frame.id = inbound'[last'.k].id
       /\ "error" \in sent'[1].frame.fields /\ sent'[1].frame.error # "null"
       /\ ~inbound'[last'.k].created
       /\ routes' = routes
       /\ asyncRoutes' = asyncRoutes]_vars

\* where a firing of event e starts in a callEvents log, 0 when it did not fire
FiredAt(log, e) ==
  IF \E i \in DOMAIN log : log[i] = Fire(e)
    THEN CHOOSE i \in DOMAIN log : log[i] = Fire(e)
    ELSE 0

\* C9: a firing of an event resolves every one-shot future queued for it, in
\* subscription order and before any durable listener of the firing runs, and
\* empties the queue; a future once resolved is never resolved again, and a
\* future is in its event's queue exactly while it is pending.
C9_OneShotFirstFiring ==
  [][/\ \A e \in EvNames :
          LET q == oneTimeEventStore[e]
              at == FiredAt(fired', e)
          IN at # 0 =>
               /\ \A i \in 1..Len(q) : fired'[at + i] = Resolved(e, q[i])
               /\ \A i \in DOMAIN fired' :
                    (fired'[i].kind = "listener" /\ fired'[i].ev = e) => i > at + Len(q)
               /\ \A i \in 1..Len(q) : eventDeferreds'[q[i]].outcome = "resolved"
               /\ oneTimeEventStore'[e] = <<>>
     /\ \A n \in DOMAIN eventDeferreds :
          /\ eventDeferreds[n].done =>
               \A i \in DOMAIN fired' : fired'[i] # Resolved(eventDeferreds[n].ev, n)
          /\ (isPending(eventDeferreds[n]) /\ FiredAt(fired', eventDeferreds[n].ev) = 0) =>
               isPending(eventDeferreds'[n])
     /\ \A n \in DOMAIN eventDeferreds' :
          isPending(eventDeferreds'[n]) <=>
            Cardinality({i \in DOMAIN oneTimeEventStore'[eventDeferreds'[n].ev] :
                           oneTimeEventStore'[eventDeferreds'[n].ev][i] = n}) = 1]_vars

\* C9 witness: two one-shot futures subscribed to change after an earlier
\* firing of it (at the transport's error) are resolved, in order and before
\* the durable listener, by the firing of change at the transport's close.
C9_Witness ==
  /\ last.op = "onclose"
  /\ sockets[last.ws].errorFired
  /\ fired = <<Fire("onclose"), Fire("onchange"), Resolved("onchange", 1),
               Resolved("onchange", 2), Called("onchange", 0)>>
  /\ \A n \in DOMAIN eventDeferreds : eventDeferreds[n].outcome = "resolved"
  /\ oneTimeEventStore["onchange"] = <<>>

\* C10: connect, error or close fires in a handler exactly when change fires
\* in it too.
C10_ChangeAccompanies ==
  (\E e \in {"onconnect", "onerror", "onclose"} : Fire(e) \in Range(fired))
    <=> Fire("onchange") \in Range(fired)

\* C11: when the handler of an error or close event has finished, the
\* outbound queue and the pending-call store are both empty.
C11_CollectionsEmptyAfterEvent ==
  last.op \in {"onerror", "onclose"} => callQueue = <<>> /\ DOMAIN store = {}

\* C12: when the transport an async inbound call arrived on has closed or
\* errored before the callback settles its Deferred, the settlement sends no
\* reply frame on any transport.
C12_LateReplyDropped ==
  (last.op = "settle" /\ (sockets[inbound[last.k].ws].errorFired
                            \/ sockets[inbound[last.k].ws].closeFired))
    => Transmitted(sent) = 0

\* C13: every construction of a transport, by connect() or by the reconnect
\* timer, leaves the connection number strictly greater than it was.
C13_ConstructionIncrements ==
  [][Len(sockets') > Len(sockets) => connectionNumber' > connectionNumber]_vars

\* C14: when the construction in the reconnect timer throws, the session
\* fires error, is left with no transport installed (state() is CLOSED) and
\* schedules no further attempt; the queued calls stay queued and pending.
C14_FailedReconnect ==
  [][(last'.op = "reconnect" /\ last'.exc # "") =>
       /\ Fire("onerror") \in Range(fired')
       /\ socket' = 0
       /\ state' = "CLOSED"
       /\ timers' = timers - 1
       /\ sockets' = sockets
       /\ callQueue' = callQueue
       /\ store' = store
       /\ deferreds' = deferreds]_vars

\* C14 witness: a reconnection attempt has just failed while a call made
\* after the close is queued; the call is still queued and pending.
C14_Witness ==
  /\ last.op = "reconnect" /\ last.exc # ""
  /\ Fire("onerror") \in Range(fired)
  /\ socket = 0 /\ timers = 0
  /\ callQueue # <<>>
  /\ \A i \in DOMAIN callQueue :
       /\ isPending(deferreds[callQueue[i].k])
       /\ store[callQueue[i].id] = callQueue[i].k

\* C15: at most one reconnection timer is scheduled and not yet fired, and at
\* most one transport with its handlers attached is not closed.
C15_NoStacking ==
  /\ timers <= 1
  /\ Cardinality({w \in DOMAIN sockets : sockets[w].readyState # CLOSED}) <= 1

\* C16: no handler of the session (open, error, close, message) raises the
\* 'Promise already done' error of Deferred.
C16_NeverAlreadyDone ==
  last.op \in {"onopen", "onerror", "onclose", "onmessage"}
    => last.exc # "Promise already done"

\* C17: handling an inbound result or error reply frame never makes the
\* session send a frame: the frame settles its pending call or is dropped.
C17_ReplyNeverAnswered ==
  [][(last'.op = "onmessage" /\ inbound' = inbound) => sent' = <<>>]_vars

\* C18: the reply the peer sent in answer to one call settles that call's
\* future when it is still pending and the future of no other call.
C18_ReplySettlesItsCall ==
  [][(last'.op = "onmessage" /\ inbound' = inbound /\ last'.k # 0) =>
       /\ deferreds'[last'.k].done
       /\ \A j \in Calls \ {last'.k} : deferreds'[j].done = deferreds[j].done]_vars

\* C19: once destroy() has closed the installed transport and its close
\* event has been handled, no transport is constructed except by connect().
C19_DestroyTerminal ==
  [][(socket # 0 /\ sockets[socket].destroyed /\ sockets[socket].closeFired
        /\ Len(sockets') > Len(sockets))
       => last'.op = "connect"]_vars

\* C20: removeServerEventListener(id), called with the id of a registered
\* listener, removes exactly the listeners whose registration returned that
\* id and leaves every other listener registered.
C20_ServerListenerIdsStable ==
  [][last'.op = "removeServerEventListener" =>
       {l \in Range(socketEventsListeners) : l \notin Range(socketEventsListeners')}
         = {l \in Range(socketEventsListeners) : l.id = last'.k}]_vars
====
